---- MODULE Spec2Model ----
(***************************************************************************)
(* A model of RendererProgram (the hint overlay renderer of LinkHints):    *)
(* its fields, the part of the document it owns, its timers and the render *)
(* calls suspended at a paint wait.  Every handler is an operator from a   *)
(* program state (a record of the fields) to the program state after it,   *)
(* so that a handler can be applied to any reachable state, once or twice. *)
(***************************************************************************)
EXTENDS Integers, Sequences, FiniteSets, TLC

VARIABLES
  hints,              \* this.hints: the hint elements, in render order
  rects,              \* this.rects: element id -> cached ClientRect
  unrenderTimeoutId,  \* this.unrenderTimeoutId: <<>> (undefined) or <<id>>
  enteredTextChars,   \* this.enteredTextChars
  timers,             \* the scheduled setTimeout callbacks not yet fired or cleared
  shruggie,           \* shruggieElement is a child of container.root
  titleIn,            \* titleElement is a child of container.root
  titleText,          \* titleElement.textContent
  textRects,          \* the text rect elements of container.root, in order
  attached,           \* container.element is in the document
  strays,             \* other elements with id CONTAINER_ID in the document
  observing,          \* container.intersectionObserver observes the container
  resizeListeners,    \* listeners held by container.resets
  renders,            \* render calls suspended at waitForPaint, oldest first
  logLevel,           \* log.level
  sent,               \* the messages sent to the background in this turn, in order
  fault,              \* this turn ended in the unreachable fault
  listening,          \* onMessage is registered (this.resets holds it)
  phase               \* how far start() and the port have come

vars == <<hints, rects, unrenderTimeoutId, enteredTextChars, timers, shruggie,
          titleIn, titleText, textRects, attached, strays, observing,
          resizeListeners, renders, logLevel, sent, fault, listening, phase>>

(***************************************************************************)
(* Bounds of the model.                                                    *)
(***************************************************************************)
MaxHints == 4      \* longest element list of a Render command
MaxPending == 1    \* render calls suspended at a paint wait when a Render arrives
MaxTimers == 2     \* timer ids in use at one time
MaxStrays == 1     \* left-over containers of an earlier instance
MaxBatch == 2      \* longest update list of an UpdateHints command
VW == 8            \* getViewport().width
VH == 6            \* getViewport().height
Beyond == 2        \* edge elements of a list beyond MAX_IMMEDIATE_HINT_MOVEMENTS

(***************************************************************************)
(* Program constants.                                                      *)
(***************************************************************************)
MAX_IMMEDIATE_HINT_MOVEMENTS == 50
MAX_Z_INDEX == 2147483647

\* The probes' measurements: rect1 ("W") and rect2 ("WW").
Rect1Width == 2
Rect2Width == 3
Rect1Height == 2
halfHeight == (Rect1Height + 1) \div 2
widthK == Rect2Width - Rect1Width
widthM == Rect1Width - widthK

Px(v) == IF v = <<>> THEN 0 ELSE v[1]

(***************************************************************************)
(* The document: what getBoundingClientRect returns for a hint element.    *)
(* A hint is absolutely positioned by left or right, plus top, and moved   *)
(* up by half its height (translateY(-50%)); margin-right moves a hint     *)
(* positioned by right, margin-top moves every hint.                       *)
(***************************************************************************)
ZeroRect == [left |-> 0, top |-> 0, right |-> 0, bottom |-> 0]

TextLength(text) == Len(text.matched) + Len(text.rest)

ElementWidth(e) == widthM + widthK * TextLength(e.text)

BoundingRect(e) ==
  LET w == ElementWidth(e)
      r == IF e.right # <<>> THEN VW - Px(e.right) - Px(e.marginRight)
                             ELSE Px(e.left) + w
      t == e.top + Px(e.marginTop) - halfHeight
  IN [left |-> r - w, top |-> t, right |-> r, bottom |-> t + Rect1Height]

IndexOf(hs, id) ==
  IF \E i \in 1..Len(hs) : hs[i].id = id
    THEN CHOOSE i \in 1..Len(hs) : hs[i].id = id
    ELSE 0

\* element.getBoundingClientRect(): an element outside the document has an
\* all-zero rect.  The elements in the document are those of this.hints.
getBoundingClientRect(s, id) ==
  IF IndexOf(s.hints, id) = 0 THEN ZeroRect
  ELSE BoundingRect(s.hints[IndexOf(s.hints, id)])

MapSet(m, k, v) == [x \in (DOMAIN m) \cup {k} |-> IF x = k THEN v ELSE m[x]]

EmptyMap == [x \in {} |-> ZeroRect]

setStyle(s, id, field, v) ==
  LET i == IndexOf(s.hints, id) IN
  IF i = 0 THEN s
  ELSE [s EXCEPT !.hints[i] = [f \in DOMAIN @ |-> IF f = field THEN v ELSE @[f]]]

(***************************************************************************)
(* moveInsideViewport: the state after it, and whether it moved a hint.    *)
(***************************************************************************)
setNoMargin(s, id, outside, field, px) == s

\* if (outside) { element.style.<field> = px; moved = true }
setMargin(s, id, outside, field, px) ==
  IF outside THEN setStyle(s, id, field, <<px>>) ELSE s

\* One turn of the loop, for an element whose rectangle is rect.
moveRect(s, id, rect) ==
  [s |-> setMargin(
           setMargin(
             setMargin(
               setMargin([s EXCEPT !.rects = MapSet(@, id, rect)],
                         id, rect.left < 0, "marginRight", rect.left),
               id, rect.top < 0, "marginTop", -rect.top),
             id, rect.right > VW, "marginRight", rect.right - VW),
           id, rect.bottom > VH, "marginTop", VH - rect.bottom),
   moved |-> rect.left < 0 \/ rect.top < 0 \/ rect.right > VW \/ rect.bottom > VH]

moveOne(s, id) == moveRect(s, id, getBoundingClientRect(s, id))

\* moved is true as soon as one element was moved.
orMoved(moved, more) == IF moved THEN [more EXCEPT !.moved = TRUE] ELSE more

RECURSIVE moveInsideViewport(_, _)
moveRest(one, elements) == orMoved(one.moved, moveInsideViewport(one.s, elements))

\* The loop over elements, in order: the turns of a list of two elements or
\* more are those of its first half, then those of its second half.
moveInsideViewport(s, elements) ==
  IF elements = <<>> THEN [s |-> s, moved |-> FALSE]
  ELSE IF Len(elements) = 1 THEN moveOne(s, elements[1])
  ELSE moveRest(moveInsideViewport(s, SubSeq(elements, 1, Len(elements) \div 2)),
                SubSeq(elements, Len(elements) \div 2 + 1, Len(elements)))

(***************************************************************************)
(* Placeholder and title.                                                  *)
(***************************************************************************)
insertNothing(s) == s

insertShruggie(s) == [s EXCEPT !.shruggie = TRUE]

removeShruggie(s) == [s EXCEPT !.shruggie = FALSE]

insertTitle(s, title) == [s EXCEPT !.titleIn = TRUE, !.titleText = title]

removeTitle(s) == [s EXCEPT !.titleIn = FALSE]

(***************************************************************************)
(* Teardown.                                                               *)
(***************************************************************************)
clearTimeout(ts, tid) == {t \in ts : <<t.id>> # tid}

\* emptyNode(this.container.root)
emptyRoot(s) == [s EXCEPT !.shruggie = FALSE, !.titleIn = FALSE, !.textRects = <<>>]

removeOwnContainer(s) == [s EXCEPT !.attached = FALSE]

\* container.element.remove(), and the loop over querySelectorAll.
removeContainers(s) == [s EXCEPT !.attached = FALSE, !.strays = 0]

leavePending(s) == s

\* if (this.unrenderTimeoutId != null) clearTimeout(this.unrenderTimeoutId)
cancelPending(s) ==
  IF s.unrenderTimeoutId # <<>>
    THEN [s EXCEPT !.timers = clearTimeout(@, s.unrenderTimeoutId)]
    ELSE s

unrender(s) ==
  LET s1 == [cancelPending(s) EXCEPT !.unrenderTimeoutId = <<>>]
      s2 == [s1 EXCEPT !.hints = <<>>, !.rects = EmptyMap]
      s3 == emptyRoot(removeContainers(s2))
  IN [s3 EXCEPT !.resizeListeners = 0, !.observing = FALSE]

\* setTimeout: a timer id no live timer and no field of the program holds.
setTimeout(s) ==
  LET used == {t.id : t \in s.timers} \cup {Px(s.unrenderTimeoutId)}
  IN CHOOSE i \in 1..(Cardinality(used) + 1) : i \notin used

unrenderDelayedRestarting(s) ==
  [s EXCEPT !.timers = clearTimeout(@, s.unrenderTimeoutId)
                         \cup {[id |-> setTimeout(s), kind |-> "delayed"]},
            !.unrenderTimeoutId = <<setTimeout(s)>>]

unrenderDelayed(s) ==
  IF s.unrenderTimeoutId # <<>> THEN s
  ELSE LET tid == setTimeout(s) IN
       [s EXCEPT !.timers = @ \cup {[id |-> tid, kind |-> "delayed"]},
                 !.unrenderTimeoutId = <<tid>>]

\* The callback unrenderDelayed schedules.
delayedTimeout(s) == unrender([s EXCEPT !.unrenderTimeoutId = <<>>])

unrenderTextRects(s, frameId) ==
  [s EXCEPT !.textRects =
     SelectSeq(@, LAMBDA r : ~(frameId = <<>> \/ r.frameId = Px(frameId)))]

unrenderToTitle(s, title) ==
  LET tid == setTimeout(s)
      s1 == cancelPending(s)
      s2 == insertTitle(s1, title)
  IN [s2 EXCEPT !.timers = @ \cup {[id |-> tid, kind |-> "title"]},
                !.unrenderTimeoutId = <<tid>>]

titleTimeoutKeepingId(s) ==
  [unrenderTextRects(s, <<>>) EXCEPT !.hints = <<>>, !.rects = EmptyMap]

titleTimeoutUnrendering(s) == unrender([s EXCEPT !.unrenderTimeoutId = <<>>])

\* The callback unrenderToTitle schedules.
titleTimeout(s) ==
  LET s1 == unrenderTextRects([s EXCEPT !.unrenderTimeoutId = <<>>], <<>>)
  IN [s1 EXCEPT !.hints = <<>>, !.rects = EmptyMap]

renderTextRects(s, boxes, frameId) ==
  [s EXCEPT !.textRects =
     @ \o [i \in 1..Len(boxes) |-> [frameId |-> frameId, box |-> boxes[i]]]]

\* A scheduled callback runs.
fire(s, t) ==
  LET s1 == [s EXCEPT !.timers = @ \ {t}]
  IN IF t.kind = "delayed" THEN delayedTimeout(s1) ELSE titleTimeout(s1)

(***************************************************************************)
(* Outbound messages and faults.                                           *)
(***************************************************************************)
\* browser.runtime.sendMessage(wrapMessage(message)); the model keeps the type.
sendMessage(s, type) == [s EXCEPT !.sent = Append(@, type)]

\* unreachable(value, ...): raises the unreachable-state fault.
unreachable(s) == [s EXCEPT !.fault = TRUE]

(***************************************************************************)
(* render, up to its first waitForPaint.                                   *)
(***************************************************************************)
createHintElement(id, hint) ==
  [id |-> id, text |-> [matched |-> <<>>, rest |-> hint],
   left |-> <<>>, right |-> <<>>, top |-> 0, zIndex |-> 0,
   marginRight |-> <<>>, marginTop |-> <<>>,
   hidden |-> FALSE, highlighted |-> FALSE]

\* The ids of the elements some part of the program still refers to.
LiveIds(s) ==
  {s.hints[i].id : i \in 1..Len(s.hints)} \cup (DOMAIN s.rects)
    \cup UNION {{s.renders[j].restElements[i] : i \in 1..Len(s.renders[j].restElements)} :
               j \in 1..Len(s.renders)}

\* document.createElement for one render call: elements no one refers to yet.
NewElements(s) ==
  LET used == {id[1] : id \in LiveIds(s)}
  IN CHOOSE g \in 1..(Cardinality(used) + 1) : g \notin used

hintZIndexOfFirst(index) == MAX_Z_INDEX

\* "z-index": String(MAX_Z_INDEX - index)
hintZIndex(index) == MAX_Z_INDEX - index

\* One turn of the loop over elements.entries(); index counts from 0.
renderElement(gen, index, el) ==
  LET m == el.hintMeasurements
      width == widthM + widthK * Len(el.hint)
      alignLeft == m.align = "left" /\ m.x + width < m.maxX
      outsideHorizontally ==
        IF m.align = "left" THEN VW - m.x <= width ELSE m.x <= width
      outsideVertically == m.y <= halfHeight \/ VH - m.y <= halfHeight
  IN [element |-> [createHintElement(<<gen, index>>, el.hint) EXCEPT
                     !.left = IF alignLeft THEN <<m.x>> ELSE <<>>,
                     !.right = IF alignLeft THEN <<>> ELSE <<VW - m.x>>,
                     !.top = m.y,
                     !.zIndex = hintZIndex(index)],
      outside |-> outsideHorizontally \/ outsideVertically]

\* this.hints.push(element), and edgeElements.push or restElements.push.
pushElement(acc, element, edge) ==
  [hints |-> Append(acc.hints, element),
   edgeElements |-> IF edge THEN Append(acc.edgeElements, element.id)
                            ELSE acc.edgeElements,
   restElements |-> IF edge THEN acc.restElements
                            ELSE Append(acc.restElements, element.id)]

pushUncapped(acc, one) == pushElement(acc, one.element, one.outside)

\* if (numEdgeElements < MAX_IMMEDIATE_HINT_MOVEMENTS && (outsideHorizontally ||
\* outsideVertically)) edgeElements.push(element) else restElements.push(element)
pushRendered(acc, one) ==
  pushElement(acc, one.element,
              Len(acc.edgeElements) < MAX_IMMEDIATE_HINT_MOVEMENTS /\ one.outside)

\* The loop over elements.entries(): a turn pushes one hint, so that the index
\* of a turn is the number of hints pushed before it.
RECURSIVE renderLoop(_, _, _)
renderLoop(gen, elements, acc) ==
  IF Len(acc.hints) >= Len(elements) THEN acc
  ELSE renderLoop(gen, elements,
         pushRendered(acc, renderElement(gen, Len(acc.hints),
                                         elements[Len(acc.hints) + 1])))

\* The container goes into the document, observed, with its two listeners.
attachContainer(s) ==
  [s EXCEPT !.attached = TRUE, !.observing = TRUE, !.resizeListeners = 2]

\* await waitForPaint(): the call is suspended with what it still has to do.
waitForPaint(s, pc, restElements) ==
  [s EXCEPT !.renders = Append(@, [pc |-> pc, restElements |-> restElements])]

\* if (elements.length > 0) this.moveInsideViewport(elements)
moveIfAny(s, elements) ==
  IF Len(elements) > 0 THEN moveInsideViewport(s, elements).s ELSE s

\* render once the loop has built the hints: the first pass over the edge
\* elements, then the wait for the first paint.
renderHints(s, acc) ==
  waitForPaint(moveIfAny([s EXCEPT !.hints = acc.hints], acc.edgeElements),
               "paint 1", acc.restElements)

\* render once the container is attached.
renderInto(s, elements) ==
  IF elements = <<>> THEN insertShruggie(s)
  ELSE renderHints(s, renderLoop(NewElements(s), elements,
         [hints |-> <<>>, edgeElements |-> <<>>, restElements |-> <<>>]))

render(s, elements, documentElement) ==
  IF ~documentElement THEN s
  ELSE renderInto(attachContainer(unrender(s)), elements)

\* const moved = this.moveInsideViewport(restElements); if (moved) await
\* waitForPaint()
afterFirstPaintReportingTwice(mv) ==
  IF mv.moved THEN sendMessage(waitForPaint(mv.s, "paint 2", <<>>), "Rendered")
  ELSE sendMessage(mv.s, "Rendered")

afterFirstPaint(mv) ==
  IF mv.moved THEN waitForPaint(mv.s, "paint 2", <<>>)
  ELSE sendMessage(mv.s, "Rendered")

resumeAttaching(s, r) == attachContainer(sendMessage(s, "Rendered"))

resumeWithoutSecondPass(s, r) == sendMessage(s, "Rendered")

resume(s, r) ==
  IF r.pc = "paint 1" THEN afterFirstPaint(moveInsideViewport(s, r.restElements))
  ELSE sendMessage(s, "Rendered")

\* The rest of a render call, run when the paint it waits for has happened.
renderResume(s) == resume([s EXCEPT !.renders = Tail(@)], Head(s.renders))

(***************************************************************************)
(* updateHints.                                                            *)
(***************************************************************************)
\* One turn of the loop over updates: acc holds the state, numHidden and
\* maybeNeedsMoveInsideViewport.
missingChildCounted(acc) == [acc EXCEPT !.numHidden = @ + 1]

\* if (child == null) { log("error", ...); continue }
missingChild(acc) == acc

requeuesEveryEmptyMatch(s, update, newText) == update.matchedChars = <<>>

\* if (update.matchedChars !== "") {...} else if (enteredTextChars !==
\* this.enteredTextChars): the margins are cleared and the child is queued.
requeues(s, update, newText) ==
  update.matchedChars = <<>> /\ newText # s.enteredTextChars

updateOne(acc, update, newText) ==
  LET s == acc.s
      i == update.index + 1
  IN IF i > Len(s.hints) THEN missingChild(acc)
     ELSE
       LET child == s.hints[i]
           toggled == [child EXCEPT !.hidden = (update.type = "Hide")]
       IN IF update.type = "Hide"
            THEN [acc EXCEPT !.s.hints[i] = toggled, !.numHidden = @ + 1]
            ELSE
              LET requeue == requeues(s, update, newText)
                  updated ==
                    [toggled EXCEPT
                       !.text = [matched |-> update.matchedChars, rest |-> update.restChars],
                       !.marginRight = IF requeue THEN <<>> ELSE @,
                       !.marginTop = IF requeue THEN <<>> ELSE @,
                       !.highlighted = update.highlighted]
              IN [acc EXCEPT
                    !.s.hints[i] = updated,
                    !.maybeNeedsMoveInsideViewport =
                       IF requeue THEN Append(@, child.id) ELSE @]

RECURSIVE updateLoop(_, _, _)
updateLoop(acc, updates, newText) ==
  IF updates = <<>> THEN acc
  ELSE updateLoop(updateOne(acc, Head(updates), newText), Tail(updates), newText)

\* enteredTextChars.replace(/\s/g, " ")
replaceWhitespace(text) ==
  [i \in 1..Len(text) |-> IF text[i] = " " THEN "nbsp" ELSE text[i]]

\* if (numHidden === this.hints.length) insertShruggie else removeShruggie
setShruggie(s, numHidden) ==
  IF numHidden = Len(s.hints) THEN insertShruggie(s) ELSE removeShruggie(s)

\* if (enteredTextChars === "") removeTitle else insertTitle
setTitle(s, newText) ==
  IF newText = <<>> THEN removeTitle(s)
  ELSE insertTitle(s, replaceWhitespace(newText))

\* updateHints once the loop over the updates is done.
afterUpdates(acc, newText) ==
  [moveIfAny(setTitle(setShruggie(acc.s, acc.numHidden), newText),
             acc.maybeNeedsMoveInsideViewport)
     EXCEPT !.enteredTextChars = newText]

updateHints(s, updates, newText) ==
  afterUpdates(updateLoop([s |-> s, numHidden |-> 0,
                           maybeNeedsMoveInsideViewport |-> <<>>], updates, newText),
               newText)

(***************************************************************************)
(* rotateHints and the stacks it rotates.                                  *)
(***************************************************************************)
overlaps(rectA, rectB) ==
  /\ rectA.right >= rectB.left
  /\ rectA.left <= rectB.right
  /\ rectA.bottom >= rectB.top
  /\ rectA.top <= rectB.bottom

\* rects.get(element) || element.getBoundingClientRect()
RectOf(s, id) ==
  IF id \in DOMAIN s.rects THEN s.rects[id] ELSE getBoundingClientRect(s, id)

RemoveAt(seq, i) == SubSeq(seq, 1, i - 1) \o SubSeq(seq, i + 1, Len(seq))

\* getStackFor from position index (counted from 0) of elements on, with the
\* stack found so far: the stack and what is left of elements.
RECURSIVE getStackFrom(_, _, _, _, _)
getStackFrom(s, element, index, elements, stack) ==
  IF index >= Len(elements) THEN [stack |-> stack, elements |-> elements]
  ELSE
    LET nextElement == elements[index + 1] IN
    IF overlaps(RectOf(s, nextElement), RectOf(s, element))
      THEN LET sub == getStackFrom(s, nextElement, 0, RemoveAt(elements, index + 1),
                                   <<nextElement>>)
           IN getStackFrom(s, element, index, sub.elements, stack \o sub.stack)
      ELSE getStackFrom(s, element, index + 1, elements, stack)

getStackForWithoutSplice(s, element, elements) ==
  [stack |-> getStackFrom(s, element, 0, elements, <<element>>).stack,
   elements |-> elements]

getStackFor(s, element, elements) ==
  getStackFrom(s, element, 0, elements, <<element>>)

RECURSIVE getStacksLoop(_, _, _)
getStacksLoop(s, elements, stacks) ==
  IF elements = <<>> THEN stacks
  ELSE LET one == getStackFor(s, elements[Len(elements)],
                              SubSeq(elements, 1, Len(elements) - 1))
       IN getStacksLoop(s, one.elements, Append(stacks, one.stack))

getStacks(s) ==
  getStacksLoop(s, [i \in 1..Len(s.hints) |-> s.hints[i].id], <<>>)

ZIndexOf(s, id) == s.hints[IndexOf(s.hints, id)].zIndex

\* stack.sort((a, b) => (Number(a.style.zIndex) - Number(b.style.zIndex)) * sign)
RECURSIVE sortStack(_, _, _)
sortStack(s, stack, sign) ==
  IF stack = <<>> THEN <<>>
  ELSE LET sorted == sortStack(s, Tail(stack), sign)
           a == Head(stack)
           k == Cardinality({j \in 1..Len(sorted) :
                   (ZIndexOf(s, sorted[j]) - ZIndexOf(s, a)) * sign < 0})
       IN SubSeq(sorted, 1, k) \o <<a>> \o SubSeq(sorted, k + 1, Len(sorted))

rotatedRepeatingLast(old) == Tail(old) \o <<old[Len(old)]>>

\* const [first, ...rest] = ...; const zIndexes = [...rest, first]
rotated(old) == Tail(old) \o <<Head(old)>>

\* stack.map(element => element.style.zIndex)
zIndexesOf(s, stack) == [i \in 1..Len(stack) |-> ZIndexOf(s, stack[i])]

\* for (const [index, element] of stack.entries())
\*   element.style.zIndex = zIndexes[index]
setZIndexes(s, stack, zIndexes) ==
  [s EXCEPT !.hints =
     [i \in 1..Len(s.hints) |->
        IF \E j \in 1..Len(stack) : stack[j] = s.hints[i].id
          THEN [s.hints[i] EXCEPT !.zIndex =
                  zIndexes[CHOOSE j \in 1..Len(stack) : stack[j] = s.hints[i].id]]
          ELSE s.hints[i]]]

rotateSorted(s, sorted) == setZIndexes(s, sorted, rotated(zIndexesOf(s, sorted)))

rotateStackBothWays(s, stack, forward) ==
  IF Len(stack) < 2 THEN s
  ELSE rotateSorted(s, sortStack(s, stack, IF forward THEN 1 ELSE -1))

\* const sign = forward ? 1 : +1
rotateStack(s, stack, forward) ==
  IF Len(stack) < 2 THEN s
  ELSE rotateSorted(s, sortStack(s, stack, IF forward THEN 1 ELSE 1))

RECURSIVE rotateLoop(_, _, _)
rotateLoop(s, stacks, forward) ==
  IF stacks = <<>> THEN s
  ELSE rotateLoop(rotateStack(s, Head(stacks), forward), Tail(stacks), forward)

rotateHints(s, forward) == rotateLoop(s, getStacks(s), forward)

(***************************************************************************)
(* onMessage: the state after one inbound message.                         *)
(***************************************************************************)
addTextRects(s, message) == renderTextRects(s, message.rects, message.frameId)

replaceAllTextRects(s, message) ==
  renderTextRects(unrenderTextRects(s, <<>>), message.rects, message.frameId)

\* case "RenderTextRects"
replaceTextRects(s, message) ==
  renderTextRects(unrenderTextRects(s, <<message.frameId>>),
                  message.rects, message.frameId)

ignoreUnknown(s) == s

\* default: unreachable(message.mode.type, message)
unknownMode(s) == unreachable(s)

\* default: unreachable(message.type, message)
unknownMessage(s) == unreachable(s)

\* case "Unrender"
unrenderByMode(s, mode) ==
  CASE mode.type = "immediate" -> unrender(s)
    [] mode.type = "delayed" -> unrenderDelayed(s)
    [] mode.type = "title" -> unrenderToTitle(s, mode.title)
    [] OTHER -> unknownMode(s)

\* The switch over message.type.
toRenderer(s, message) ==
  CASE message.type = "StateSync" -> [s EXCEPT !.logLevel = message.logLevel]
    [] message.type = "Render" -> render(s, message.elements, message.documentElement)
    [] message.type = "UpdateHints" ->
         updateHints(s, message.updates, message.enteredTextChars)
    [] message.type = "RotateHints" -> rotateHints(s, message.forward)
    [] message.type = "RenderTextRects" -> replaceTextRects(s, message)
    [] message.type = "UnrenderTextRects" -> unrenderTextRects(s, <<>>)
    [] message.type = "Unrender" -> unrenderByMode(s, message.mode)
    [] OTHER -> unknownMessage(s)

onMessage(s, wrappedMessage) ==
  IF wrappedMessage.type = "FirefoxWorkaround"
    THEN sendMessage(s, "RendererScriptAdded")
  ELSE IF wrappedMessage.type # "ToRenderer" THEN s
  ELSE toRenderer(s, wrappedMessage.message)

(***************************************************************************)
(* The program state as one record, and back.                              *)
(***************************************************************************)
Cur ==
  [hints |-> hints, rects |-> rects, unrenderTimeoutId |-> unrenderTimeoutId,
   enteredTextChars |-> enteredTextChars, timers |-> timers, shruggie |-> shruggie,
   titleIn |-> titleIn, titleText |-> titleText, textRects |-> textRects,
   attached |-> attached, strays |-> strays, observing |-> observing,
   resizeListeners |-> resizeListeners, renders |-> renders, logLevel |-> logLevel,
   sent |-> sent, fault |-> fault]

Becomes(s) ==
  /\ hints' = s.hints
  /\ rects' = s.rects
  /\ unrenderTimeoutId' = s.unrenderTimeoutId
  /\ enteredTextChars' = s.enteredTextChars
  /\ timers' = s.timers
  /\ shruggie' = s.shruggie
  /\ titleIn' = s.titleIn
  /\ titleText' = s.titleText
  /\ textRects' = s.textRects
  /\ attached' = s.attached
  /\ strays' = s.strays
  /\ observing' = s.observing
  /\ resizeListeners' = s.resizeListeners
  /\ renders' = s.renders
  /\ logLevel' = s.logLevel
  /\ sent' = s.sent
  /\ fault' = s.fault

\* The state the constructor leaves, in a document that may hold the
\* container of an earlier instance.
Init ==
  /\ hints = <<>>
  /\ rects = EmptyMap
  /\ unrenderTimeoutId = <<>>
  /\ enteredTextChars = <<>>
  /\ timers = {}
  /\ shruggie = FALSE
  /\ titleIn = FALSE
  /\ titleText = <<>>
  /\ textRects = <<>>
  /\ attached = FALSE
  /\ strays \in 0..MaxStrays
  /\ observing = FALSE
  /\ resizeListeners = 0
  /\ renders = <<>>
  /\ logLevel = "log"
  /\ sent = <<>>
  /\ fault = FALSE
  /\ listening = FALSE
  /\ phase = "constructed"

(***************************************************************************)
(* What the coordinator may send.                                          *)
(***************************************************************************)
SeqsUpTo(S, n) == UNION {[1..k -> S] : k \in 0..n}

El(x, y, align, maxX, hint) ==
  [hintMeasurements |-> [x |-> x, y |-> y, align |-> align, maxX |-> maxX],
   hint |-> hint]

\* Targets in a row across the middle of the viewport, each hint touching
\* the next one, and the last one touching the right edge.
RowElements ==
  {El(0, VH \div 2, "left", VW, <<"A">>), El(2, VH \div 2, "left", VW, <<"A">>),
   El(4, VH \div 2, "left", VW, <<"A">>), El(VW, VH \div 2, "right", VW, <<"A">>)}

\* A target in the top left corner, one at the bottom edge and one in the
\* middle.
CornerElement == El(1, 0, "right", VW, <<"A", "B">>)
BottomElement == El(VW - 1, VH, "left", VW, <<"A">>)
MiddleElement == El(2, VH \div 2, "left", VW, <<"A">>)
\* A target whose hint touches the uncorrected hint of the corner target.
NearElement == El(1, 2, "left", VW, <<"A">>)

\* A target so narrow (maxX) that its hint is aligned right, at the left edge.
FlippedElement == El(1, VH \div 2, "left", 2, <<"A">>)

\* A target that reaches beyond the right edge of the viewport: its hint is
\* aligned left and crosses that edge.
WideElement == El(VW - 1, VH \div 2, "left", VW + 3, <<"A">>)

\* Lists with a hint across each edge of the viewport, and hints across none.
EdgeLists ==
  {<<WideElement, CornerElement>>, <<BottomElement, MiddleElement>>, <<FlippedElement>>}

Injective(seq) == \A i, j \in 1..Len(seq) : seq[i] = seq[j] => i = j

RowLists == {l \in SeqsUpTo(RowElements, MaxHints) : Injective(l)}

FewLists == {<<>>, <<CornerElement>>, <<BottomElement, MiddleElement>>}

TwoLists == {<<>>, <<CornerElement, NearElement>>}

PaintLists ==
  {<<>>, <<CornerElement>>, <<MiddleElement>>, <<FlippedElement, MiddleElement>>,
   <<CornerElement, FlippedElement>>}

\* n times the element e.
Repeat(e, n) == [i \in 1..n |-> e]

\* Lists of about MAX_IMMEDIATE_HINT_MOVEMENTS targets in the top left corner,
\* alone or followed by a target in the middle or at the bottom edge.
ManyLists ==
  {Repeat(CornerElement, n) \o rest :
     n \in (MAX_IMMEDIATE_HINT_MOVEMENTS - 1)..(MAX_IMMEDIATE_HINT_MOVEMENTS + Beyond),
     rest \in {<<>>, <<MiddleElement>>, <<BottomElement>>}}

Texts == {<<>>, <<" ">>}

Titles == {<<"t">>, <<"u">>}

Frames == 1..2

Updates(indexes) ==
  [index : indexes, type : {"Hide"}, matchedChars : {<<>>}, restChars : {<<>>},
   highlighted : {FALSE}]
  \cup [index : indexes, type : {"Update"}, matchedChars : {<<>>},
        restChars : {<<"A", "B">>}, highlighted : {FALSE}]
  \cup [index : indexes, type : {"Update"}, matchedChars : {<<"A">>},
        restChars : {<<"B">>}, highlighted : {TRUE}]

Wrap(message) == [type |-> "ToRenderer", message |-> message]

RenderMessages(lists) ==
  [type : {"Render"}, elements : lists, documentElement : BOOLEAN]

UpdateMessages(batches, texts) ==
  [type : {"UpdateHints"}, updates : batches, enteredTextChars : texts]

RotateMessages == [type : {"RotateHints"}, forward : BOOLEAN]

TextRectMessages(frames) ==
  [type : {"RenderTextRects"}, rects : SeqsUpTo({"box"}, 1), frameId : frames]

UnrenderTextRectMessages(frames) ==
  [type : {"UnrenderTextRects"}, frameId : {<<>>} \cup {<<f>> : f \in frames}]

UnrenderMessages(titles) ==
  [type : {"Unrender"},
   mode : {[type |-> "immediate"], [type |-> "delayed"]}
            \cup [type : {"title"}, title : titles]]

StateSyncMessages == [type : {"StateSync"}, logLevel : {"log", "debug"}]

\* Message types and teardown modes outside the protocol.
UnknownMessages ==
  {[type |-> "Ping"], [type |-> "Unrender", mode |-> [type |-> "fade"]]}

\* The retry signal, and a message addressed to another program.
Envelopes ==
  {[type |-> "FirefoxWorkaround"],
   [type |-> "ToWorker", message |-> [type |-> "StateSync", logLevel |-> "debug"]]}

(***************************************************************************)
(* The steps of the program.                                               *)
(***************************************************************************)
\* The program state at the start of a task turn: nothing sent yet, no fault.
Turn == [Cur EXCEPT !.sent = <<>>, !.fault = FALSE]

\* start(), up to the await of the announcement.
start(s) == [unrender(s) EXCEPT !.sent = Append(@, "RendererScriptAdded")]

stopWithoutUnrender(s) == s

\* this.resets.reset() (the step drops the listener); this.unrender()
stop(s) == unrender(s)

Start ==
  /\ phase = "constructed"
  /\ Becomes(start(Turn))
  /\ listening' = TRUE
  /\ phase' = "announcing"

AnnouncementFailsStopping ==
  /\ phase = "announcing"
  /\ Becomes(stop(Turn))
  /\ phase' = "passive"
  /\ listening' = FALSE

\* The announcement is rejected (nobody listens yet): catch (_error) { return }
AnnouncementFails ==
  /\ phase = "announcing"
  /\ Becomes(Turn)
  /\ phase' = "passive"
  /\ UNCHANGED listening

\* The announcement is acknowledged: browser.runtime.connect(), onDisconnect.
AnnouncementSucceeds ==
  /\ phase = "announcing"
  /\ Becomes(Turn)
  /\ phase' = "connected"
  /\ UNCHANGED listening

\* The port disconnects: its listener calls stop().
Disconnect ==
  /\ phase = "connected"
  /\ Becomes(stop(Turn))
  /\ listening' = FALSE
  /\ phase' = "stopped"

\* browser.runtime.onMessage delivers one message to onMessage.
Receive(wrappedMessage) ==
  /\ Becomes(onMessage(Turn, wrappedMessage))
  /\ UNCHANGED <<listening, phase>>

Deliver(message) == Receive(Wrap(message))

\* The retry signal of the background script, and a message to another program.
FirefoxWorkaround ==
  /\ listening
  /\ \E w \in Envelopes : Receive(w)

\* A message, or a teardown mode, that the protocol does not know.
Unknown ==
  /\ listening
  /\ \E m \in UnknownMessages : Deliver(m)

StateSync ==
  /\ listening
  /\ \E m \in StateSyncMessages : Deliver(m)

Render(lists) ==
  /\ listening
  /\ Len(renders) <= MaxPending
  /\ \E m \in RenderMessages(lists) : Deliver(m)

UpdateHints(batches, texts) ==
  /\ listening
  /\ \E m \in UpdateMessages(batches, texts) : Deliver(m)

RotateHints ==
  /\ listening
  /\ \E m \in RotateMessages : Deliver(m)

RenderTextRects(frames) ==
  /\ listening
  /\ \E m \in TextRectMessages(frames) : Deliver(m)

UnrenderTextRects(frames) ==
  /\ listening
  /\ \E m \in UnrenderTextRectMessages(frames) : Deliver(m)

Unrender(titles) ==
  /\ listening
  /\ \E m \in UnrenderMessages(titles) :
       /\ m.mode.type # "immediate" => Cardinality(timers) < MaxTimers
       /\ Deliver(m)

\* A frame is painted: the oldest suspended render call goes on.
Paint ==
  /\ renders # <<>>
  /\ Becomes(renderResume(Turn))
  /\ UNCHANGED <<listening, phase>>

\* UNRENDER_DELAY has passed for a scheduled callback.
Timeout ==
  /\ timers # {}
  /\ \E t \in timers : Becomes(fire(Turn, t))
  /\ UNCHANGED <<listening, phase>>

\* Rendering and rotating rows of hints.
NextHints ==
  \/ Start
  \/ Render(RowLists)
  \/ RotateHints
  \/ Paint

SpecHints == Init /\ [][NextHints]_vars

\* Rendering hints and updating them while the user types.
NextUpdate ==
  \/ Start
  \/ Render(FewLists)
  \/ UpdateHints(SeqsUpTo(Updates(0..2), MaxBatch), Texts)
  \/ Paint

SpecUpdate == Init /\ [][NextUpdate]_vars

\* Rendering, text rects of two frames and the three ways of tearing down.
NextTeardown ==
  \/ Start
  \/ StateSync
  \/ Render(TwoLists)
  \/ RenderTextRects(Frames)
  \/ UnrenderTextRects(Frames)
  \/ Unrender(Titles)
  \/ Paint
  \/ Timeout

SpecTeardown == Init /\ [][NextTeardown]_vars

\* The commands that change what is shown, with few hints.
OneUpdate == SeqsUpTo(Updates(0..1), 1)

Next ==
  \/ Start
  \/ Render(TwoLists)
  \/ UpdateHints(OneUpdate, Texts)
  \/ RotateHints
  \/ RenderTextRects({1})
  \/ UnrenderTextRects({1})
  \/ Unrender({<<"t">>})
  \/ Paint
  \/ Timeout

Spec == Init /\ [][Next]_vars

\* Start-up, the port, the retry signal and unknown messages, with rendering
\* and the teardown to a title.
NextLifecycle ==
  \/ Start
  \/ AnnouncementFails
  \/ AnnouncementSucceeds
  \/ Disconnect
  \/ FirefoxWorkaround
  \/ Unknown
  \/ Render(FewLists)
  \/ Unrender({<<"t">>})
  \/ Paint
  \/ Timeout

SpecLifecycle == Init /\ [][NextLifecycle]_vars

\* Render calls and their paints, with an immediate teardown in between.
NextRender ==
  \/ Start
  \/ Render(PaintLists)
  \/ Unrender({})
  \/ Paint
  \/ Timeout

SpecRender == Init /\ [][NextRender]_vars

\* Hints across the edges of the viewport, corrected by render and, while
\* the user types, by updateHints.
NextMove ==
  \/ Start
  \/ Render(EdgeLists)
  \/ UpdateHints(OneUpdate, Texts)
  \/ Paint

SpecMove == Init /\ [][NextMove]_vars

\* Render calls for more edge hints than the first pass takes.
NextMany ==
  \/ Start
  \/ Render(ManyLists)
  \/ Paint

SpecMany == Init /\ [][NextMany]_vars

\* The commands of Next other than RotateHints.
OtherMessages ==
  StateSyncMessages \cup RenderMessages(TwoLists) \cup UpdateMessages(OneUpdate, Texts)
    \cup TextRectMessages({1}) \cup UnrenderTextRectMessages({1})
    \cup UnrenderMessages({<<"t">>})


(***************************************************************************)
(* Properties.                                                             *)
(***************************************************************************)
Range(seq) == {seq[i] : i \in 1..Len(seq)}

HintIds(s) == {s.hints[i].id : i \in 1..Len(s.hints)}

\* The hints that a chain of overlapping rectangles links to those of set.
RECURSIVE Linked(_, _)
Linked(s, set) ==
  LET more == {b \in HintIds(s) :
                 \E a \in set : overlaps(RectOf(s, a), RectOf(s, b))}
  IN IF more \subseteq set THEN set ELSE Linked(s, set \cup more)

\* The maximal overlap clusters of the hints.
Clusters(s) == {Linked(s, {a}) : a \in HintIds(s)}

RECURSIVE Times(_, _, _)
Times(s, forward, n) ==
  IF n = 0 THEN s ELSE Times(rotateHints(s, forward), forward, n - 1)

\* The hint of members that holds the next z-index above that of a, or the
\* one with the lowest z-index when a holds the highest.
NextAbove(s, members, a) ==
  LET above == {b \in members : ZIndexOf(s, b) > ZIndexOf(s, a)}
  IN IF above = {}
       THEN CHOOSE b \in members : \A c \in members : ZIndexOf(s, b) <= ZIndexOf(s, c)
       ELSE CHOOSE b \in above : \A c \in above : ZIndexOf(s, b) <= ZIndexOf(s, c)

IsCycleOn(s, members) ==
  \A forward \in BOOLEAN :
    LET once == rotateHints(s, forward)
        back == Times(s, forward, Cardinality(members))
    IN /\ \A a \in members : ZIndexOf(once, a) = ZIndexOf(s, NextAbove(s, members, a))
       /\ {ZIndexOf(once, a) : a \in members} = {ZIndexOf(s, a) : a \in members}
       /\ \A a \in members : ZIndexOf(back, a) = ZIndexOf(s, a)

\* C1: for a list of N >= 1 elements, render leaves exactly N hints, in the
\* order of the list (each at its element's place, with its label), hint i
\* (from 0) with z-index MAX_Z_INDEX - i, so that the z-indexes are distinct
\* and strictly decreasing.
C1_RenderBuildsHintsInOrder ==
  \A m \in RenderMessages(RowLists) :
    (m.documentElement /\ Len(m.elements) >= 1) =>
      LET r == onMessage(Cur, Wrap(m)) IN
      /\ Len(r.hints) = Len(m.elements)
      /\ \A i \in 1..Len(r.hints) :
           /\ r.hints[i].text = [matched |-> <<>>, rest |-> m.elements[i].hint]
           /\ r.hints[i].top = m.elements[i].hintMeasurements.y
           /\ m.elements[i].hintMeasurements.x \in
                {Px(r.hints[i].left), VW - Px(r.hints[i].right)}
           /\ r.hints[i].zIndex = MAX_Z_INDEX - (i - 1)
      /\ \A i, j \in 1..Len(r.hints) :
           i < j => /\ r.hints[i].zIndex > r.hints[j].zIndex
                    /\ r.hints[i].id # r.hints[j].id

\* A render call has just built three hints or more and waits for its first
\* paint.
C1_Witness ==
  /\ Len(hints) >= 3
  /\ \A i \in 1..Len(hints) : hints[i].zIndex = MAX_Z_INDEX - (i - 1)
  /\ \E k \in 1..Len(renders) :
       /\ renders[k].pc = "paint 1"
       /\ Range(renders[k].restElements) = HintIds(Cur)

\* C2: in every reachable state no two hints of this.hints have the same
\* z-index.
C2_ZIndexesUnique ==
  \A i, j \in 1..Len(hints) : i # j => hints[i].zIndex # hints[j].zIndex

\* Two hints whose order of z-indexes a rotation has turned around.
C2_Witness ==
  /\ Len(hints) >= 2
  /\ hints[1].zIndex < hints[2].zIndex

\* C3: on every maximal overlap cluster of k >= 2 hints, rotateHints is a
\* k-cycle of the cluster's z-indexes: each hint takes the z-index of the hint
\* next above it, the highest takes the lowest, the set of z-indexes stays,
\* and k rotations restore every z-index.
C3_RotateIsCycleOnCluster ==
  \A members \in Clusters(Cur) :
    Cardinality(members) >= 2 => IsCycleOn(Cur, members)

\* On every stack getStacks returns, rotateHints is such a cycle.
RotateIsCycleOnStack ==
  LET stacks == getStacks(Cur) IN
  \A j \in 1..Len(stacks) :
    Len(stacks[j]) >= 2 => IsCycleOn(Cur, Range(stacks[j]))

\* C4: two hints whose rectangles intersect, or that a chain of intersecting
\* rectangles links, are in the same stack of getStacks.
C4_StacksAreMaximal ==
  LET stacks == getStacks(Cur) IN
  \A members \in Clusters(Cur) :
    \E j \in 1..Len(stacks) : members \subseteq Range(stacks[j])

AllHidden(s) == \A i \in 1..Len(s.hints) : s.hints[i].hidden

\* C5: after updateHints, for any batch of updates, the placeholder is in the
\* root if every hint is hidden and is not if some hint is visible.
C5_PlaceholderIffAllHidden ==
  \A m \in UpdateMessages(SeqsUpTo(Updates(0..2), MaxBatch), Texts) :
    LET r == onMessage(Cur, Wrap(m)) IN r.shruggie <=> AllHidden(r)

Pending(s) == s.unrenderTimeoutId # <<>>

\* What is scheduled after a teardown request is what that request alone
\* schedules, and no timer of before the request is left.
OnlyTheRequest(s, m, r) ==
  /\ r.timers \cap s.timers = {}
  /\ CASE m.mode.type = "immediate" -> r.timers = {} /\ r.hints = <<>>
       [] m.mode.type = "delayed" ->
            \E t \in r.timers : r.timers = {t} /\ t.kind = "delayed"
       [] m.mode.type = "title" ->
            /\ \E t \in r.timers : r.timers = {t} /\ t.kind = "title"
            /\ r.titleIn /\ r.titleText = m.mode.title

\* C6: a teardown request of any mode that arrives while a deferred teardown
\* is pending cancels it: afterwards only what the new request schedules is
\* scheduled.
C6_EveryRequestCancelsPending ==
  \A m \in UnrenderMessages(Titles) :
    Pending(Cur) => OnlyTheRequest(Cur, m, onMessage(Cur, Wrap(m)))

\* C6, amended: an immediate or a title request that arrives while a deferred
\* teardown is pending cancels it, and afterwards only what the new request
\* schedules is scheduled; a delayed request leaves the pending one as it is.
C6_ImmediateAndTitleCancelPending ==
  \A m \in UnrenderMessages(Titles) :
    Pending(Cur) =>
      LET r == onMessage(Cur, Wrap(m)) IN
      IF m.mode.type = "delayed"
        THEN r.timers = timers /\ r.unrenderTimeoutId = unrenderTimeoutId
        ELSE OnlyTheRequest(Cur, m, r)

\* A title teardown is pending that replaced an earlier pending teardown.
C6_Witness ==
  \E t \in timers : t.id = 2 /\ t.kind = "title" /\ unrenderTimeoutId = <<2>>

\* C7: at most one teardown callback is scheduled, and unrenderTimeoutId is
\* set exactly when one is, to the id of that one.
C7_OnePendingTimer ==
  /\ Cardinality(timers) <= 1
  /\ Pending(Cur) <=> timers # {}
  /\ \A t \in timers : unrenderTimeoutId = <<t.id>>

\* A teardown is pending while hints are shown.
C7_Witness == Cardinality(timers) = 1 /\ hints # <<>> /\ attached

\* C8: unrenderToTitle(t) puts the title with text t in the root at once and
\* leaves the hints and text rects; when its callback then runs, this.hints
\* and this.rects are empty and no text rect is left, while the title is
\* still in the root and the container where it was; an immediate unrender
\* after that removes the title and the container.
C8_TitleThenHintsGo ==
  \A title \in Titles :
    LET shown == onMessage(Cur, Wrap([type |-> "Unrender",
                   mode |-> [type |-> "title", title |-> title]]))
        due == CHOOSE t \in shown.timers : <<t.id>> = shown.unrenderTimeoutId
        gone == fire(shown, due)
        off == onMessage(gone, Wrap([type |-> "Unrender",
                 mode |-> [type |-> "immediate"]]))
    IN /\ shown.titleIn /\ shown.titleText = title
       /\ shown.hints = hints /\ shown.textRects = textRects
       /\ shown.attached = attached
       /\ due.kind = "title"
       /\ gone.hints = <<>> /\ gone.rects = EmptyMap /\ gone.textRects = <<>>
       /\ gone.titleIn /\ gone.titleText = title
       /\ gone.attached = attached
       /\ gone.timers = {} /\ gone.unrenderTimeoutId = <<>>
       /\ ~off.titleIn /\ ~off.attached /\ off.hints = <<>>

\* The callback of unrenderToTitle has run after a render of hints: the title
\* is left alone in the attached container.
C8_Witness ==
  /\ titleIn /\ titleText \in Titles /\ attached /\ ~shruggie
  /\ hints = <<>> /\ textRects = <<>> /\ timers = {}

\* C9: after unrender, from any state and also before any render, this.hints
\* and this.rects are empty, no teardown is pending, the container is out of
\* the document and its root empty, nothing is observed or listened to, no
\* element with the container's id is in the document; a second unrender
\* changes nothing.
C9_UnrenderResetsAndIsIdempotent ==
  LET m == Wrap([type |-> "Unrender", mode |-> [type |-> "immediate"]])
      r == onMessage(Cur, m)
  IN /\ r.hints = <<>> /\ r.rects = EmptyMap
     /\ r.unrenderTimeoutId = <<>> /\ r.timers = {}
     /\ ~r.attached /\ r.strays = 0
     /\ ~r.shruggie /\ ~r.titleIn /\ r.textRects = <<>>
     /\ ~r.observing /\ r.resizeListeners = 0
     /\ onMessage(r, m) = r
     /\ unrender(Cur) = r

\* An unrender has run while a render call waits for a paint.
C9_Witness ==
  /\ listening /\ renders # <<>>
  /\ ~attached /\ hints = <<>> /\ timers = {} /\ ~titleIn /\ textRects = <<>>

\* What the overlay shows: the hints without their identities, the text
\* rects, the title and the placeholder.
Visual(s) ==
  [hints |-> [i \in 1..Len(s.hints) |->
                [f \in (DOMAIN s.hints[i]) \ {"id"} |-> s.hints[i][f]]],
   textRects |-> s.textRects,
   title |-> IF s.titleIn THEN <<s.titleText>> ELSE <<>>,
   shruggie |-> s.shruggie,
   attached |-> s.attached]

Once(m) == onMessage(Cur, Wrap(m))

Twice(m) == onMessage(onMessage(Cur, Wrap(m)), Wrap(m))

\* C10: every inbound command is idempotent: from any reachable state,
\* processing it twice in a row shows what processing it once shows.
C10_EveryCommandIdempotent ==
  \A m \in OtherMessages \cup RotateMessages : Visual(Twice(m)) = Visual(Once(m))

\* C10, amended: every inbound command other than RotateHints is idempotent:
\* from any reachable state, processing it twice in a row shows what
\* processing it once shows.
C10_CommandsButRotateIdempotent ==
  \A m \in OtherMessages : Visual(Twice(m)) = Visual(Once(m))

\* Hints are shown with a text rect and a title, and some update changes what
\* is shown when processed once and nothing more when processed again.
C10_Witness ==
  /\ hints # <<>> /\ textRects # <<>> /\ titleIn
  /\ \E m \in UpdateMessages(OneUpdate, Texts) :
       Visual(Once(m)) # Visual(Cur) /\ Visual(Twice(m)) = Visual(Once(m))

Reports(s) == Cardinality({i \in 1..Len(s.sent) : s.sent[i] = "Rendered"})

\* A resumed render call either waits for one more paint, without a report,
\* or ends with exactly one report; after its second paint it ends.
ResumeReportsOnce ==
  renders # <<>> =>
    LET q == renderResume(Turn) IN
    \/ /\ Head(renders).pc = "paint 1"
       /\ Reports(q) = 0
       /\ q.renders = Append(Tail(renders), [pc |-> "paint 2", restElements |-> <<>>])
    \/ /\ Reports(q) = 1
       /\ q.renders = Tail(renders)

\* C11: every Render that passes the root-element guard, for any list, the
\* empty one included, leads to exactly one Rendered report: after the command
\* the call has reported once or waits for a paint, and a call that waits
\* reports exactly once when its paints have happened.
C11_EveryRenderReports ==
  listening =>
  /\ \A m \in RenderMessages(PaintLists) :
       m.documentElement =>
         LET r == onMessage(Turn, Wrap(m)) IN
         Reports(r) + Len(r.renders) = Len(renders) + 1
  /\ ResumeReportsOnce

\* C11, amended: every Render with a non-empty list that passes the guard
\* leads to exactly one Rendered report (it waits for a paint without having
\* reported, and reports exactly once when its paints have happened); a Render
\* with an empty list reports nothing, then or later.
C11_NonEmptyRenderReports ==
  listening =>
  /\ \A m \in RenderMessages(PaintLists) :
       m.documentElement =>
         LET r == onMessage(Turn, Wrap(m)) IN
         /\ Reports(r) = 0
         /\ Len(r.renders) = Len(renders) + (IF m.elements = <<>> THEN 0 ELSE 1)
         /\ SubSeq(r.renders, 1, Len(renders)) = renders
  /\ ResumeReportsOnce

\* A render call that waited for two paints has just reported.
C11_Witness ==
  /\ sent = <<"Rendered">>
  /\ \E i \in 1..Len(hints) : hints[i].marginRight = <<-1>>
  /\ renders = <<>>

\* C12: Render with an empty list leaves the placeholder and nothing else in
\* the root, no hints, an empty rect cache and the container attached.
C12_EmptyRenderShowsPlaceholder ==
  \A m \in RenderMessages({<<>>}) :
    m.documentElement =>
      LET r == onMessage(Turn, Wrap(m)) IN
      /\ r.shruggie /\ ~r.titleIn /\ r.textRects = <<>>
      /\ r.hints = <<>> /\ r.rects = EmptyMap
      /\ r.attached /\ r.strays = 0

\* The placeholder of an empty render is shown, after hints had been shown.
C12_Witness ==
  /\ shruggie /\ attached /\ hints = <<>> /\ rects = EmptyMap
  /\ renders # <<>>

\* All of the state but the fault.
Unfaulted(s) == [s EXCEPT !.fault = FALSE]

\* C13: a message whose type, or an Unrender whose mode, is outside the
\* protocol ends in the unreachable fault and changes nothing else; a message
\* of the protocol raises no fault.
C13_UnknownMessagesFault ==
  listening =>
    /\ \A m \in UnknownMessages :
         LET r == onMessage(Turn, Wrap(m)) IN r.fault /\ Unfaulted(r) = Turn
    /\ \A m \in RenderMessages(FewLists) \cup UnrenderMessages({<<"t">>}) :
         ~onMessage(Turn, Wrap(m)).fault

\* A message outside the protocol has just faulted while hints are shown.
C13_Witness == fault /\ hints # <<>> /\ attached

Missing(s, update) == update.index >= Len(s.hints)

Present(s, updates) == SelectSeq(updates, LAMBDA u : ~Missing(s, u))

\* C14: an update for an index without a hint is skipped and the call goes
\* on: the batch does what it does without its updates for missing indexes
\* (they change no hint and do not count as hidden), and the title and the
\* entered text are set from the call.
C14_MissingIndexSkipped ==
  listening =>
    \A m \in UpdateMessages(SeqsUpTo(Updates(0..2), MaxBatch), Texts) :
      LET r == onMessage(Turn, Wrap(m)) IN
      /\ r = onMessage(Turn, Wrap([m EXCEPT !.updates = Present(Cur, m.updates)]))
      /\ Present(Cur, m.updates) = <<>> => r.hints = hints
      /\ r.enteredTextChars = m.enteredTextChars
      /\ r.titleIn <=> m.enteredTextChars # <<>>
      /\ ~r.fault

\* The only hint is hidden, the placeholder and a title are shown, and a
\* batch that hides the hint and names a missing index leaves just that.
C14_Witness ==
  /\ Len(hints) = 1 /\ hints[1].hidden /\ shruggie /\ titleIn
  /\ \E m \in UpdateMessages(SeqsUpTo(Updates(0..2), MaxBatch), Texts) :
       /\ Len(m.updates) = 2
       /\ ~Missing(Cur, m.updates[1]) /\ Missing(Cur, m.updates[2])
       /\ Visual(onMessage(Turn, Wrap(m))) = Visual(Cur)

OfFrame(rs, f) == SelectSeq(rs, LAMBDA r : r.frameId = f)

NotOfFrame(rs, f) == SelectSeq(rs, LAMBDA r : r.frameId # f)

\* C15: UnrenderTextRects with a frame identifier removes the text rects of
\* that frame and leaves those of every other frame; without one it removes
\* all text rects; the hints stay.
C15_UnrenderTextRectsOfFrame ==
  listening =>
    \A m \in UnrenderTextRectMessages(Frames) :
      LET r == onMessage(Turn, Wrap(m)) IN
      /\ r.hints = hints
      /\ IF m.frameId = <<>> THEN r.textRects = <<>>
         ELSE r.textRects = NotOfFrame(textRects, m.frameId[1])

\* C16: after RenderTextRects(rects, frameId) the root holds exactly the
\* given rects for that frame, and the text rects of every other frame, the
\* hints and the title are as before.
C16_RenderTextRectsReplacesFrame ==
  listening =>
    \A m \in TextRectMessages(Frames) :
      LET r == onMessage(Turn, Wrap(m)) IN
      /\ OfFrame(r.textRects, m.frameId) =
           [i \in 1..Len(m.rects) |-> [frameId |-> m.frameId, box |-> m.rects[i]]]
      /\ NotOfFrame(r.textRects, m.frameId) = NotOfFrame(textRects, m.frameId)
      /\ r.hints = hints /\ r.rects = rects
      /\ r.titleIn = titleIn /\ r.titleText = titleText

\* Text rects of both frames are shown with hints and a title.
C16_Witness ==
  /\ OfFrame(textRects, 1) # <<>> /\ OfFrame(textRects, 2) # <<>>
  /\ hints # <<>> /\ titleIn

\* C17: when the announcement of start has failed, start is over with the
\* handler registered, no fault, no port and no stop, and it stays so; each
\* retry signal then sends one announcement and changes nothing else.
C17_FailedAnnouncementStaysPassive ==
  /\ [](phase = "passive" =>
          /\ listening
          /\ onMessage(Turn, [type |-> "FirefoxWorkaround"])
               = [Turn EXCEPT !.sent = <<"RendererScriptAdded">>])
  /\ [][phase = "announcing" /\ phase' = "passive" =>
          /\ listening' /\ ~fault' /\ sent' = <<>>
          /\ Visual(Cur)' = Visual(Cur)]_vars
  /\ [][phase = "passive" => phase' = "passive" /\ listening']_vars

\* A retry signal has just been answered after the announcement failed, with
\* hints shown.
C17_Witness ==
  /\ phase = "passive" /\ sent = <<"RendererScriptAdded">> /\ hints # <<>>

\* Nothing is shown: the state unrender leaves.
Unrendered(s) ==
  /\ s.hints = <<>> /\ s.rects \in {EmptyMap} \cup [DOMAIN s.rects -> {ZeroRect}]
  /\ ~s.attached /\ s.strays = 0
  /\ ~s.shruggie /\ ~s.titleIn /\ s.textRects = <<>>
  /\ s.timers = {} /\ s.unrenderTimeoutId = <<>>
  /\ ~s.observing /\ s.resizeListeners = 0

\* C18: when the announcement succeeded the port is open and the handler
\* registered; when the port has disconnected the program has stopped: the
\* handler is unregistered and the overlay unrendered, and it stays so
\* whatever happens afterwards.
C18_DisconnectStops ==
  /\ phase = "connected" => listening
  /\ phase = "stopped" => ~listening /\ Unrendered(Cur)

\* After the stop, a render call that was suspended has finished.
C18_Witness == phase = "stopped" /\ sent = <<"Rendered">>

\* C19: Unrender(delayed) while a deferred teardown is pending schedules
\* nothing and changes nothing.
C19_DelayedWhilePendingIsNoOp ==
  (listening /\ Pending(Cur)) =>
    onMessage(Turn, Wrap([type |-> "Unrender", mode |-> [type |-> "delayed"]])) = Turn

\* A teardown to a title is pending over hints and text rects.
C19_Witness ==
  /\ \E t \in timers : t.kind = "title" /\ unrenderTimeoutId = <<t.id>>
  /\ hints # <<>> /\ textRects # <<>> /\ titleIn

\* Some element of ids has a rectangle that crosses an edge of the viewport.
Crosses(s, ids) ==
  \E i \in 1..Len(ids) :
    LET rect == getBoundingClientRect(s, ids[i])
    IN rect.left < 0 \/ rect.top < 0 \/ rect.right > VW \/ rect.bottom > VH

\* C20: a Render call with a non-empty list corrects its edge hints, then
\* waits for the first paint without having reported; resumed, it corrects the
\* other hints and, if that moved one, waits for a second paint without
\* reporting, otherwise reports and ends; resumed after the second paint it
\* reports and ends, changing nothing else.
C20_RenderStepsInOrder ==
  /\ listening =>
       \A m \in RenderMessages(PaintLists) :
         (m.documentElement /\ m.elements # <<>>) =>
           LET r == onMessage(Turn, Wrap(m))
               k == Len(r.renders)
           IN /\ Reports(r) = 0
              /\ k = Len(renders) + 1
              /\ SubSeq(r.renders, 1, k - 1) = renders
              /\ r.renders[k].pc = "paint 1"
              /\ DOMAIN r.rects = HintIds(r) \ Range(r.renders[k].restElements)
  /\ renders # <<>> =>
       LET call == Head(renders)
           q == renderResume(Turn)
       IN IF call.pc = "paint 1"
            THEN /\ Range(call.restElements) \subseteq DOMAIN q.rects
                 /\ IF Crosses(Cur, call.restElements)
                      THEN /\ Reports(q) = 0
                           /\ q.renders = Append(Tail(renders),
                                [pc |-> "paint 2", restElements |-> <<>>])
                      ELSE /\ q.sent = <<"Rendered">>
                           /\ q.renders = Tail(renders)
            ELSE /\ q.sent = <<"Rendered">>
                 /\ q.renders = Tail(renders)
                 /\ q.hints = hints /\ q.rects = rects

\* A render call waits for its second paint, its second pass having moved a
\* hint.
C20_Witness ==
  /\ \E k \in 1..Len(renders) : renders[k].pc = "paint 2"
  /\ \E i \in 1..Len(hints) : hints[i].marginRight = <<-1>>
  /\ sent = <<>>

\* The state when every suspended render call has run to its end.
RECURSIVE Finish(_)
Finish(s) == IF s.renders = <<>> THEN s ELSE Finish(renderResume(s))

\* The hints of r, built from elements, that the loop classifies as edge.
EdgeHints(r, elements) ==
  {r.hints[i].id : i \in {j \in 1..Len(r.hints) : renderElement(0, j - 1, elements[j]).outside}}

Min(a, b) == IF a < b THEN a ELSE b

\* C21: render puts every hint in exactly one of the two passes; the first
\* pass holds only hints classified as edge, as many of them as there are up
\* to MAX_IMMEDIATE_HINT_MOVEMENTS and never more, the other edge hints go to
\* the second pass; when the call has run to its end with no command in
\* between, every hint has a cached rectangle, measured once: in the first
\* pass for the hints of the first pass, in the second for the others.
C21_EveryHintInOnePass ==
  listening =>
    \A m \in RenderMessages(ManyLists) :
      (m.documentElement /\ m.elements # <<>>) =>
        LET r == onMessage(Turn, Wrap(m))
            first == DOMAIN r.rects
            second == r.renders[Len(r.renders)].restElements
            edge == EdgeHints(r, m.elements)
            done == Finish(r)
        IN /\ Len(r.hints) = Len(m.elements)
           /\ first \cup Range(second) = HintIds(r)
           /\ first \cap Range(second) = {}
           /\ Injective(second)
           /\ first \subseteq edge
           /\ Cardinality(first) = Min(Cardinality(edge), MAX_IMMEDIATE_HINT_MOVEMENTS)
           /\ done.renders = <<>>
           /\ done.hints # <<>> /\ HintIds(done) = HintIds(r)
           /\ HintIds(r) \subseteq DOMAIN done.rects
           /\ \A id \in first : done.rects[id] = r.rects[id]
           /\ \A id \in Range(second) : done.rects[id] = getBoundingClientRect(r, id)

\* A render call has built more edge hints than the first pass takes and
\* waits for its first paint: the first pass has measured exactly
\* MAX_IMMEDIATE_HINT_MOVEMENTS hints, and the next edge hint, still across
\* the edge, is left to the second pass.
C21_Witness ==
  /\ Len(hints) > MAX_IMMEDIATE_HINT_MOVEMENTS
  /\ Cardinality(DOMAIN rects) = MAX_IMMEDIATE_HINT_MOVEMENTS
  /\ \E k \in 1..Len(renders) :
       /\ renders[k].pc = "paint 1"
       /\ hints[MAX_IMMEDIATE_HINT_MOVEMENTS + 1].id \in Range(renders[k].restElements)
  /\ Crosses(Cur, <<hints[MAX_IMMEDIATE_HINT_MOVEMENTS + 1].id>>)

\* The rectangle crosses an edge of the viewport.
Outside(rect) == rect.left < 0 \/ rect.top < 0 \/ rect.right > VW \/ rect.bottom > VH

\* The margin-right and the margin-top that correct a hint of margins
\* marginRight and marginTop measured at rect.
CorrectedRight(rect, marginRight) ==
  IF rect.right > VW THEN <<rect.right - VW>>
  ELSE IF rect.left < 0 THEN <<rect.left>> ELSE marginRight

CorrectedTop(rect, marginTop) ==
  IF rect.bottom > VH THEN <<VH - rect.bottom>>
  ELSE IF rect.top < 0 THEN <<-rect.top>> ELSE marginTop

C23_CachedRectIsWhereTheHintIs ==
  \A elements \in SeqsUpTo(HintIds(Cur), 2) :
    LET mv == moveInsideViewport(Turn, elements) IN
    \A id \in Range(elements) :
      /\ id \in DOMAIN mv.s.rects
      /\ mv.s.rects[id] = getBoundingClientRect(mv.s, id)

\* Some Update entry of the call for the hint at position i (from 1) has no
\* matched characters, while the call's filter text is not the stored one.
Requeued(s, m, i) ==
  \E k \in 1..Len(m.updates) :
    /\ m.updates[k].index = i - 1
    /\ m.updates[k].type = "Update"
    /\ m.updates[k].matchedChars = <<>>
    /\ m.enteredTextChars # s.enteredTextChars

Unmargined(hint) == [hint EXCEPT !.marginRight = <<>>, !.marginTop = <<>>]

\* C24: in UpdateHints a hint's margins are cleared and the hint is corrected
\* again (measured without margins, cached, and given the margins of that
\* measurement) exactly when an Update entry for it has no matched characters
\* and the filter text of the call differs from the stored one; every other
\* hint keeps its margins and its cache entry; after the call the stored
\* filter text is the passed one, and only UpdateHints changes it, so that it
\* is the filter text of the previous UpdateHints call.
C24_RequeueOnEmptyMatchAndNewText ==
  listening =>
    /\ \A m \in UpdateMessages(SeqsUpTo(Updates(0..1), MaxBatch), Texts) :
         LET r == onMessage(Turn, Wrap(m)) IN
         /\ r.enteredTextChars = m.enteredTextChars
         /\ Len(r.hints) = Len(hints)
         /\ \A i \in 1..Len(hints) :
              LET id == hints[i].id
                  rect == BoundingRect(Unmargined(r.hints[i]))
              IN IF Requeued(Cur, m, i)
                   THEN /\ id \in DOMAIN r.rects
                        /\ r.hints[i].marginRight = CorrectedRight(rect, <<>>)
                        /\ r.hints[i].marginTop = CorrectedTop(rect, <<>>)
                   ELSE /\ r.hints[i].marginRight = hints[i].marginRight
                        /\ r.hints[i].marginTop = hints[i].marginTop
                        /\ (id \in DOMAIN r.rects) = (id \in DOMAIN rects)
                        /\ id \in DOMAIN rects => r.rects[id] = rects[id]
    /\ \A m \in RenderMessages(EdgeLists) :
         onMessage(Turn, Wrap(m)).enteredTextChars = enteredTextChars
    /\ renders # <<>> => renderResume(Turn).enteredTextChars = enteredTextChars

\* A hint that a suspended render call has still to correct has been
\* corrected by UpdateHints with a new filter text and an empty match: it has
\* its new label, a cache entry and the margin of its new width.
C24_Witness ==
  /\ enteredTextChars = <<" ">>
  /\ \E k \in 1..Len(renders), i \in 1..Len(hints) :
       /\ renders[k].pc = "paint 1"
       /\ hints[i].id \in Range(renders[k].restElements)
       /\ hints[i].id \in DOMAIN rects
       /\ hints[i].text = [matched |-> <<>>, rest |-> <<"A", "B">>]
       /\ hints[i].marginRight = <<-2>>

\* C25: RotateHints with forward true and RotateHints with forward false,
\* from the same state, give every hint the same z-index (and differ in
\* nothing else).
C25_BothDirectionsRotateAlike ==
  listening =>
    LET there == onMessage(Turn, Wrap([type |-> "RotateHints", forward |-> TRUE]))
        back == onMessage(Turn, Wrap([type |-> "RotateHints", forward |-> FALSE]))
    IN /\ Len(there.hints) = Len(hints) /\ Len(back.hints) = Len(hints)
       /\ \A i \in 1..Len(hints) : there.hints[i].zIndex = back.hints[i].zIndex
       /\ there = back

\* A stack of three hints or more has been rotated, and rotating it again
\* changes the z-index of each of its hints.
C25_Witness ==
  /\ \E i, j \in 1..Len(hints) : i < j /\ hints[i].zIndex < hints[j].zIndex
  /\ \E k \in 1..Len(getStacks(Cur)) :
       /\ Len(getStacks(Cur)[k]) >= 3
       /\ \A id \in Range(getStacks(Cur)[k]) :
            ZIndexOf(rotateHints(Cur, FALSE), id) # ZIndexOf(Cur, id)

\* C26: in every reachable state every element with a cached rectangle is a
\* hint of this.hints, also when an Unrender or a second Render comes while a
\* render call waits for a paint and that call goes on afterwards.
C26_CachedNodesAreHints == DOMAIN rects \subseteq HintIds(Cur)

\* The commands that are not Render.
NoRenderMessages ==
  StateSyncMessages \cup UpdateMessages(OneUpdate, Texts) \cup RotateMessages
    \cup TextRectMessages({1}) \cup UnrenderTextRectMessages({1})
    \cup UnrenderMessages({<<"t">>}) \cup UnknownMessages

Torn(s) == s.hints = <<>> /\ ~s.attached

\* C27: an immediate unrender, and stop, leave this.hints empty and the
\* container out of the document, and they stay so until the next Render:
\* through the continuation of a render call that waited for a paint, through
\* every timer callback and through every command that is not Render.
C27_TornDownUntilNextRender ==
  /\ Torn(unrender(Turn)) /\ Torn(stop(Turn))
  /\ Torn(Cur) =>
       /\ renders # <<>> => Torn(renderResume(Turn))
       /\ \A t \in timers : Torn(fire(Turn, t))
       /\ \A m \in NoRenderMessages : Torn(onMessage(Turn, Wrap(m)))
       /\ \A w \in Envelopes : Torn(onMessage(Turn, w))

\* After an immediate unrender, the render call that waited for a paint has
\* gone on and reported, and nothing is shown.
C27_Witness ==
  /\ listening /\ sent = <<"Rendered">>
  /\ hints = <<>> /\ ~attached /\ ~titleIn /\ timers = {}
  /\ rects # EmptyMap

RECURSIVE Concat(_)
Concat(stacks) == IF stacks = <<>> THEN <<>> ELSE Head(stacks) \o Concat(Tail(stacks))

\* C28: the stacks of getStacks partition the hints: every hint is in exactly
\* one stack and once in it, no stack is empty, and the hint list is as it
\* was, also after rotateHints has used the stacks.
C28_StacksPartitionHints ==
  LET stacks == getStacks(Cur)
      all == Concat(stacks)
  IN /\ Len(all) = Len(hints)
     /\ Range(all) = HintIds(Cur)
     /\ Injective(all)
     /\ \A k \in 1..Len(stacks) : stacks[k] # <<>>
     /\ \A forward \in BOOLEAN :
          [i \in 1..Len(hints) |-> rotateHints(Cur, forward).hints[i].id]
            = [i \in 1..Len(hints) |-> hints[i].id]

\* Four hints in two stacks or more, one of them of two hints or more, with
\* cached rectangles.
C28_Witness ==
  /\ Len(hints) = 4 /\ DOMAIN rects = HintIds(Cur)
  /\ Len(getStacks(Cur)) >= 2
  /\ \E k \in 1..Len(getStacks(Cur)) : Len(getStacks(Cur)[k]) >= 2
====
